---------------------------- MODULE Spec2Model ----------------------------
(***************************************************************************)
(* Model of the CV layout engine of backend/app/services/layout_service.py *)
(* (ContentMeasurer, SectionAnalyzer, LayoutOptimizer and                  *)
(* ResponsiveLayoutService).                                               *)
(*                                                                         *)
(* Lengths are integers in units of 1/10000 mm, so that every product the  *)
(* code forms (font_size * 0.35 * line_height, height * 0.7 ... 1.5,       *)
(* content_width * 0.65) is exact.  A text is modelled by its length, the  *)
(* only thing the measurer reads of it.                                    *)
(***************************************************************************)
EXTENDS Integers, Sequences, FiniteSets, TLC

VARIABLES
    cv_data,       \* the content mapping handed to the service
    char_widths,   \* ContentMeasurer.char_widths of the shared instance
    pc,            \* "idle" or "returned"
    call,          \* the operation that returned and its arguments
    layout_type,   \* LayoutType used by the last call
    constraints,   \* PageConstraints used by the last call
    sections,      \* SectionDimensions list produced by the last call
    result,        \* LayoutResult returned by the last call
    first,         \* the first result generate returned in this run
    threads,       \* the local variables of each concurrent invocation
    measured       \* two texts handed to the measurer and their heights

vars == <<cv_data, char_widths, pc, call, layout_type, constraints, sections,
          result, first, threads, measured>>

(* ------------------------------ arithmetic ----------------------------- *)

\* x millimetres in model units
MM(x) == x * 10000

\* math.ceil(a / b) for a >= 0, b > 0
CeilDiv(a, b) == (a + b - 1) \div b

\* int(a / b) for b > 0: truncation toward zero
TruncDiv(a, b) == IF a >= 0 THEN a \div b ELSE -((-a) \div b)

\* h * (k / 10); every height of the model is a multiple of 10 units
Scale(h, k) == (h * k) \div 10

Max(a, b) == IF a >= b THEN a ELSE b

Min(a, b) == IF a <= b THEN a ELSE b

RECURSIVE SumSeq(_)
SumSeq(s) == IF s = <<>> THEN 0 ELSE Head(s) + SumSeq(Tail(s))

(* ------------------------------ data model ----------------------------- *)

SINGLE_COLUMN == "single_column"
TWO_COLUMN == "two_column"
MODERN_SIDEBAR == "modern_sidebar"
EXECUTIVE == "executive"
ACADEMIC == "academic"
CREATIVE == "creative"

LayoutType == {SINGLE_COLUMN, TWO_COLUMN, MODERN_SIDEBAR, EXECUTIVE, ACADEMIC, CREATIVE}

\* SectionPriority: CRITICAL = 1, HIGH = 2, MEDIUM = 3, LOW = 4
CRITICAL == "CRITICAL"
HIGH == "HIGH"
MEDIUM == "MEDIUM"

PageConstraints(width, height, top, bottom, left, right) ==
    [width_mm |-> width, height_mm |-> height,
     margin_top_mm |-> top, margin_bottom_mm |-> bottom,
     margin_left_mm |-> left, margin_right_mm |-> right]

\* PageConstraints(): A4 with 20mm margins
DefaultConstraints == PageConstraints(MM(210), MM(297), MM(20), MM(20), MM(20), MM(20))

content_width_mm(c) == c.width_mm - c.margin_left_mm - c.margin_right_mm

content_height_mm(c) == c.height_mm - c.margin_top_mm - c.margin_bottom_mm

SectionDimensions(id, type, priority, min, preferred, max, split, items) ==
    [section_id |-> id, section_type |-> type, priority |-> priority,
     min_height_mm |-> min, preferred_height_mm |-> preferred,
     max_height_mm |-> max, can_split |-> split, items_count |-> items]

LayoutElement(id, x, y, width, height, page) ==
    [element_id |-> id, element_type |-> "section", x_mm |-> x, y_mm |-> y,
     width_mm |-> width, height_mm |-> height, page_number |-> page,
     z_index |-> 0]

LayoutResult(pages, total, overflow, score, recs) ==
    [pages |-> pages, total_pages |-> total, overflow_sections |-> overflow,
     layout_score |-> score, recommendations |-> recs]

(* ---------------------------- ContentMeasurer -------------------------- *)

\* ContentMeasurer.__init__: self.char_widths
InitialCharWidths == (24 :> 48000) @@ (16 :> 32000) @@ (14 :> 28000) @@
                     (11 :> 22000) @@ (9 :> 18000)

\* self.char_widths.get(font_size, 2.2)
CharWidth(font_size) ==
    IF font_size \in DOMAIN char_widths THEN char_widths[font_size] ELSE 22000

\* font_size * 0.35 * line_height, line_height given in tenths
LineHeightMm(font_size, lh10) == font_size * 35 * lh10 * 10

\* an estimate that measures the empty text as one full line
EstimateTextHeightEmptyIsOneLine(text, font_size, max_width_mm, lh10) ==
    IF text = 0 THEN LineHeightMm(font_size, lh10)
    ELSE LET chars_per_line == TruncDiv(max_width_mm, CharWidth(font_size))
         IN  IF chars_per_line <= 0
             THEN font_size * 3500
             ELSE CeilDiv(text, chars_per_line) * LineHeightMm(font_size, lh10)

\* estimate_text_height; text is the length of the string
estimate_text_height(text, font_size, max_width_mm, lh10) ==
    IF text = 0 THEN 0
    ELSE LET chars_per_line == TruncDiv(max_width_mm, CharWidth(font_size))
         IN  IF chars_per_line <= 0
             THEN font_size * 3500
             ELSE CeilDiv(text, chars_per_line) * LineHeightMm(font_size, lh10)

RECURSIVE estimate_list_height(_, _, _, _)
estimate_list_height(items, font_size, max_width_mm, lh10) ==
    IF items = <<>> THEN 0
    ELSE estimate_text_height(Head(items), font_size, max_width_mm, lh10) + MM(2)
         + estimate_list_height(Tail(items), font_size, max_width_mm, lh10)

\* estimate_header_height; contact_items is the number of non-empty fields
\* among email, phone, location and linkedin_url
estimate_header_height(personal_details, max_width_mm) ==
    LET name == personal_details.full_name
        position == personal_details.desired_position
        contact_items == personal_details.contact_items
    IN  (IF name # 0
         THEN estimate_text_height(name, 24, max_width_mm, 13) + MM(5) ELSE 0)
      + (IF position # 0
         THEN estimate_text_height(position, 16, max_width_mm, 13) + MM(3) ELSE 0)
      + (IF contact_items # 0
         THEN CeilDiv(contact_items, 2) * LineHeightMm(11, 14) + MM(5) ELSE 0)
      + MM(20)

(* ---------------------------- SectionAnalyzer -------------------------- *)

\* 14 * 0.35 * 1.4 + 8
SectionTitleHeight == LineHeightMm(14, 14) + MM(8)

_estimate_summary_height(summary, max_width_mm) ==
    SectionTitleHeight + estimate_text_height(summary, 11, max_width_mm, 15) + MM(10)

\* one entry of experience_list; exp is the list of its achievements
JobHeight(exp, max_width_mm) ==
    2 * LineHeightMm(11, 14) + MM(5)
    + (IF exp # <<>>
       THEN estimate_list_height(exp, 11, max_width_mm - MM(10), 15) ELSE 0)
    + MM(15)

RECURSIVE JobsHeight(_, _)
JobsHeight(experience_list, max_width_mm) ==
    IF experience_list = <<>> THEN 0
    ELSE JobHeight(Head(experience_list), max_width_mm)
         + JobsHeight(Tail(experience_list), max_width_mm)

_estimate_experience_height(experience_list, max_width_mm) ==
    <<SectionTitleHeight + JobsHeight(experience_list, max_width_mm),
      Len(experience_list)>>

\* skills is the list of the categories' skill counts
_estimate_skills_height(skills, max_width_mm, lt) ==
    LET skills_height ==
            IF lt = TWO_COLUMN
            THEN Len(skills) * MM(25)
            ELSE LET total_skills == SumSeq(skills)
                     skills_per_row == Max(1, TruncDiv(max_width_mm, MM(40)))
                     rows_needed == CeilDiv(total_skills, skills_per_row)
                 IN  rows_needed * MM(15) + Len(skills) * MM(10)
    IN  SectionTitleHeight + skills_height + MM(10)

\* education_list is the number of entries
_estimate_education_height(education_list, max_width_mm) ==
    <<SectionTitleHeight + education_list * (3 * LineHeightMm(11, 14) + MM(10)),
      education_list>>

ProjectHeight(project, max_width_mm) ==
    LineHeightMm(11, 14) + MM(3)
    + (IF project.description # 0
       THEN estimate_text_height(project.description, 10, max_width_mm, 14) ELSE 0)
    + (IF project.technologies # 0 THEN LineHeightMm(10, 14) + MM(5) ELSE 0)
    + MM(10)

RECURSIVE ProjectsHeight(_, _)
ProjectsHeight(projects_list, max_width_mm) ==
    IF projects_list = <<>> THEN 0
    ELSE ProjectHeight(Head(projects_list), max_width_mm)
         + ProjectsHeight(Tail(projects_list), max_width_mm)

_estimate_projects_height(projects_list, max_width_mm) ==
    SectionTitleHeight + ProjectsHeight(projects_list, max_width_mm)

HeaderSection(h) ==
    SectionDimensions("header", "header", CRITICAL,
                      Scale(h, 8), h, Scale(h, 12), FALSE, 0)

SummarySection(h) ==
    SectionDimensions("professional_summary", "summary", HIGH,
                      Scale(h, 9), h, Scale(h, 13), TRUE, 0)

ExperienceSection(hn) ==
    SectionDimensions("work_experience", "experience", CRITICAL,
                      Scale(hn[1], 7), hn[1], Scale(hn[1], 14), TRUE, hn[2])

\* the skills factors 0.8 and 1.5 exchanged
SkillsSectionSwapped(h) ==
    SectionDimensions("skills", "skills", HIGH,
                      Scale(h, 15), h, Scale(h, 8), TRUE, 0)

SkillsSection(h) ==
    SectionDimensions("skills", "skills", HIGH,
                      Scale(h, 8), h, Scale(h, 15), TRUE, 0)

EducationSection(hn) ==
    SectionDimensions("education", "education", MEDIUM,
                      Scale(hn[1], 9), hn[1], Scale(hn[1], 13), TRUE, hn[2])

ProjectsSection(h) ==
    SectionDimensions("projects", "projects", MEDIUM,
                      Scale(h, 8), h, Scale(h, 14), TRUE, 0)

\* the main-column width the analyzer measures against
AnalyzerWidth(page_constraints, lt) ==
    IF lt \in {TWO_COLUMN, MODERN_SIDEBAR}
    THEN (content_width_mm(page_constraints) * 65) \div 100
    ELSE content_width_mm(page_constraints)

analyze_cv_sections(data, page_constraints, lt) ==
    LET content_width == AnalyzerWidth(page_constraints, lt)
    IN  (IF data.has_personal_details
         THEN <<HeaderSection(estimate_header_height(data.personal_details,
                                                     content_width))>>
         ELSE <<>>)
     \o (IF data.professional_summary # 0
         THEN <<SummarySection(_estimate_summary_height(data.professional_summary,
                                                        content_width))>>
         ELSE <<>>)
     \o (IF data.work_experience # <<>>
         THEN <<ExperienceSection(_estimate_experience_height(data.work_experience,
                                                              content_width))>>
         ELSE <<>>)
     \o (IF data.skills # <<>>
         THEN <<SkillsSection(_estimate_skills_height(data.skills, content_width, lt))>>
         ELSE <<>>)
     \o (IF data.education # 0
         THEN <<EducationSection(_estimate_education_height(data.education,
                                                            content_width))>>
         ELSE <<>>)
     \o (IF data.projects # <<>>
         THEN <<ProjectsSection(_estimate_projects_height(data.projects,
                                                          content_width))>>
         ELSE <<>>)


(* ----------------------------- LayoutOptimizer ------------------------- *)

PageTotalHeight(page) == SumSeq([i \in 1..Len(page) |-> page[i].height_mm])

ElementIds(page) == {page[i].element_id : i \in 1..Len(page)}

CriticalSections(secs) ==
    {secs[i].section_id : i \in {j \in 1..Len(secs) : secs[j].priority = CRITICAL}}

\* the penalty of one page: page_height is the literal 297 - 40
UtilizationPenalty(page) ==
    LET total_height == PageTotalHeight(page)
        page_height == MM(297) - MM(40)
    IN  IF total_height * 10 < 7 * page_height THEN 10
        ELSE IF total_height * 20 > 19 * page_height THEN 15
        ELSE 0

\* the score returned as computed, without the clamp
ClampScoreMissing(score) == score

\* max(0, min(100, score))
ClampScore(score) == Max(0, Min(100, score))

\* a score clamped before the bonus for the critical sections is added
CalculateLayoutScoreClampedEarly(pages, overflow_sections, secs) ==
    LET multi == IF Len(pages) > 1 THEN (Len(pages) - 1) * 15 ELSE 0
        overflow == Len(overflow_sections) * 10
        packing == SumSeq([i \in 1..Len(pages) |-> UtilizationPenalty(pages[i])])
        bonus == IF pages # <<>>
                 THEN Cardinality(CriticalSections(secs) \cap ElementIds(pages[1])) * 5
                 ELSE 0
    IN  ClampScore(100 - multi - overflow - packing) + bonus

_calculate_layout_score(pages, overflow_sections, secs) ==
    LET multi == IF Len(pages) > 1 THEN (Len(pages) - 1) * 15 ELSE 0
        overflow == Len(overflow_sections) * 10
        packing == SumSeq([i \in 1..Len(pages) |-> UtilizationPenalty(pages[i])])
        bonus == IF pages # <<>>
                 THEN Cardinality(CriticalSections(secs) \cap ElementIds(pages[1])) * 5
                 ELSE 0
    IN  ClampScore(100 - multi - overflow - packing + bonus)

\* a recommendation is the sequence of the pieces of its text; most have one
Text(str) == <<str>>

RECURSIVE JoinIds(_)
JoinIds(ids) ==
    IF ids = <<>> THEN <<>>
    ELSE IF Len(ids) = 1 THEN <<Head(ids)>>
    ELSE <<Head(ids), ", ">> \o JoinIds(Tail(ids))

RecCondense == <<Text("Consider condensing content to fit within 2 pages")>>

\* f"Sections may be truncated: {', '.join(overflow_sections)}"
RecTruncated(overflow_sections) ==
    <<Text("Sections may be truncated: ") \o JoinIds(overflow_sections)>>

RecOptimize == <<Text("Layout could be optimized for better presentation")>>

RecBalance == <<Text("Consider moving some content to second page for better balance")>>

RecLimitExperience ==
    <<Text("Consider limiting work experience to 4-5 most relevant positions")>>

RecWellOptimized ==
    <<Text("Layout is well-optimized for readability and ATS compatibility")>>

\* recommendations with the general-optimization advice ahead of the
\* truncated-sections advice
GenerateRecommendationsScoreFirst(pages, overflow_sections, secs, score) ==
    LET experience_sections ==
            SelectSeq(secs, LAMBDA s : s.section_type = "experience")
        recommendations ==
            (IF Len(pages) > 2 THEN RecCondense ELSE <<>>)
         \o (IF score < 70 THEN RecOptimize ELSE <<>>)
         \o (IF overflow_sections # <<>> THEN RecTruncated(overflow_sections) ELSE <<>>)
         \o (IF pages # <<>> /\ PageTotalHeight(pages[1]) > MM(250)
             THEN RecBalance ELSE <<>>)
         \o (IF experience_sections # <<>> /\ experience_sections[1].items_count > 5
             THEN RecLimitExperience ELSE <<>>)
    IN  IF recommendations = <<>> THEN RecWellOptimized ELSE recommendations

_generate_layout_recommendations(pages, overflow_sections, secs, score) ==
    LET experience_sections ==
            SelectSeq(secs, LAMBDA s : s.section_type = "experience")
        recommendations ==
            (IF Len(pages) > 2 THEN RecCondense ELSE <<>>)
         \o (IF overflow_sections # <<>> THEN RecTruncated(overflow_sections) ELSE <<>>)
         \o (IF score < 70 THEN RecOptimize ELSE <<>>)
         \o (IF pages # <<>> /\ PageTotalHeight(pages[1]) > MM(250)
             THEN RecBalance ELSE <<>>)
         \o (IF experience_sections # <<>> /\ experience_sections[1].items_count > 5
             THEN RecLimitExperience ELSE <<>>)
    IN  IF recommendations = <<>> THEN RecWellOptimized ELSE recommendations

\* the fit test against the content height, forgetting that current_y
\* starts at the top margin
FitsPreferredNoTopMargin(current_y, section, c) ==
    current_y + section.preferred_height_mm <= content_height_mm(c)

\* line 423: the section fits on the current page at its preferred height
FitsPreferred(current_y, section, c) ==
    current_y + section.preferred_height_mm <= c.height_mm - c.margin_bottom_mm

\* line 437: the minimum version is tried; available_height is the content height
FitsMinimum(current_y, section, c) ==
    section.can_split /\ section.min_height_mm < content_height_mm(c)

\* the cursor advanced by the gap alone
NextYDroppingHeight(current_y, height) == current_y + MM(5)

\* lines 435, 449, 476: 5mm spacing between sections
NextY(current_y, height) == current_y + height + MM(5)

\* line 465
HeightToUse(section, c) == Min(section.preferred_height_mm, content_height_mm(c))

\* closing the page without keeping what was on it
ClosePageLosingPage(st) ==
    [st EXCEPT !.current_page = <<>>,
               !.page_number = st.page_number + 1]

\* lines 457-461: close the current page
ClosePage(st) ==
    [st EXCEPT !.pages = IF st.current_page # <<>>
                         THEN Append(st.pages, st.current_page) ELSE st.pages,
               !.current_page = <<>>,
               !.page_number = st.page_number + 1]

\* the body of the loop over the sections, lines 421-476
PlaceSection(st, section, c) ==
    IF FitsPreferred(st.current_y, section, c)
    THEN [st EXCEPT
            !.current_page = Append(st.current_page,
                LayoutElement(section.section_id, c.margin_left_mm, st.current_y,
                              content_width_mm(c), section.preferred_height_mm,
                              st.page_number)),
            !.current_y = NextY(st.current_y, section.preferred_height_mm)]
    ELSE IF FitsMinimum(st.current_y, section, c)
    THEN [st EXCEPT
            !.current_page = Append(st.current_page,
                LayoutElement(section.section_id, c.margin_left_mm, st.current_y,
                              content_width_mm(c), section.min_height_mm,
                              st.page_number)),
            !.current_y = NextY(st.current_y, section.min_height_mm),
            !.overflow_sections =
                IF section.max_height_mm > section.min_height_mm
                THEN Append(st.overflow_sections, section.section_id)
                ELSE st.overflow_sections]
    ELSE LET closed == ClosePage(st)
             height_to_use == HeightToUse(section, c)
         IN  [closed EXCEPT
                !.current_page = <<LayoutElement(section.section_id, c.margin_left_mm,
                                                 c.margin_top_mm, content_width_mm(c),
                                                 height_to_use, closed.page_number)>>,
                !.current_y = NextY(c.margin_top_mm, height_to_use)]

RECURSIVE PlaceAll(_, _, _)
PlaceAll(st, secs, c) ==
    IF secs = <<>> THEN st
    ELSE PlaceAll(PlaceSection(st, Head(secs), c), Tail(secs), c)

\* lines 413-419: the local variables of _optimize_single_column before the loop
StartOfPlacement(c) ==
    [pages |-> <<>>, current_page |-> <<>>,
     current_y |-> c.margin_top_mm, page_number |-> 1,
     overflow_sections |-> <<>>]

\* a result built without adding the page that was open when the loop ended
CompletePlacementWithoutLastPage(done, secs) ==
    LET pages == done.pages
        layout_score == _calculate_layout_score(pages, done.overflow_sections, secs)
    IN  LayoutResult(pages, Len(pages), done.overflow_sections, layout_score,
                     _generate_layout_recommendations(pages, done.overflow_sections,
                                                      secs, layout_score))

\* lines 478-494: after the loop, the last page is added and the result built
CompletePlacement(done, secs) ==
    LET pages == IF done.current_page # <<>>
                 THEN Append(done.pages, done.current_page) ELSE done.pages
        layout_score == _calculate_layout_score(pages, done.overflow_sections, secs)
    IN  LayoutResult(pages, Len(pages), done.overflow_sections, layout_score,
                     _generate_layout_recommendations(pages, done.overflow_sections,
                                                      secs, layout_score))

_optimize_single_column(secs, c) ==
    CompletePlacement(PlaceAll(StartOfPlacement(c), secs, c), secs)

\* line 506: the test that sends a section to the main column
IsMainSection(section) ==
    section.section_type \in {"header", "professional_summary", "work_experience"}

\* the elements of one column, stacked from y downwards
RECURSIVE StackColumn(_, _, _, _, _)
StackColumn(secs, x, y, width, page_number) ==
    IF secs = <<>> THEN <<>>
    ELSE <<LayoutElement(Head(secs).section_id, x, y, width,
                         Head(secs).preferred_height_mm, page_number)>>
         \o StackColumn(Tail(secs), x, NextY(y, Head(secs).preferred_height_mm),
                        width, page_number)

\* a two-column placement whose sidebar starts at the top margin
OptimizeTwoColumnSidebarAtTop(secs, c) ==
    LET main_sections == SelectSeq(secs, IsMainSection)
        sidebar_sections == SelectSeq(secs, LAMBDA s : ~IsMainSection(s))
        main_width == (content_width_mm(c) * 65) \div 100
        sidebar_width == (content_width_mm(c) * 30) \div 100
        sidebar_x == c.margin_left_mm + main_width + MM(10)
        current_page ==
            StackColumn(main_sections, c.margin_left_mm, c.margin_top_mm, main_width, 1)
         \o StackColumn(sidebar_sections, sidebar_x, c.margin_top_mm,
                        sidebar_width, 1)
    IN  LayoutResult(<<current_page>>, 1, <<>>, 85,
                     <<Text("Two-column layout provides good information density")>>)

_optimize_two_column(secs, c) ==
    LET main_sections == SelectSeq(secs, IsMainSection)
        sidebar_sections == SelectSeq(secs, LAMBDA s : ~IsMainSection(s))
        main_width == (content_width_mm(c) * 65) \div 100
        sidebar_width == (content_width_mm(c) * 30) \div 100
        sidebar_x == c.margin_left_mm + main_width + MM(10)
        current_page ==
            StackColumn(main_sections, c.margin_left_mm, c.margin_top_mm, main_width, 1)
         \o StackColumn(sidebar_sections, sidebar_x, c.margin_top_mm + MM(60),
                        sidebar_width, 1)
    IN  LayoutResult(<<current_page>>, 1, <<>>, 85,
                     <<Text("Two-column layout provides good information density")>>)

_optimize_sidebar(secs, c) == _optimize_two_column(secs, c)

\* a dispatch whose fallback is the two-column strategy
StrategyFallbackTwoColumn(secs, lt, c) ==
    IF lt = SINGLE_COLUMN THEN _optimize_single_column(secs, c)
    ELSE IF lt = TWO_COLUMN THEN _optimize_two_column(secs, c)
    ELSE IF lt = MODERN_SIDEBAR THEN _optimize_sidebar(secs, c)
    ELSE _optimize_two_column(secs, c)

\* the strategy optimize_layout dispatches to, lines 400-408
Strategy(secs, lt, c) ==
    IF lt = SINGLE_COLUMN THEN _optimize_single_column(secs, c)
    ELSE IF lt = TWO_COLUMN THEN _optimize_two_column(secs, c)
    ELSE IF lt = MODERN_SIDEBAR THEN _optimize_sidebar(secs, c)
    ELSE _optimize_single_column(secs, c)

optimize_layout(data, lt, page_constraints) ==
    Strategy(analyze_cv_sections(data, page_constraints, lt), lt, page_constraints)

(* ------------------------- ResponsiveLayoutService --------------------- *)

\* the selection with the academic rule tried before the technology rule
ChooseLayoutTypeAcademicFirst(data, experience_level, industry) ==
    LET work_experience_count == Len(data.work_experience)
        has_projects == data.projects # <<>>
        skills_count == SumSeq(data.skills)
    IN  IF experience_level = "senior" /\ work_experience_count >= 4 THEN EXECUTIVE
        ELSE IF industry \in {"creative", "design", "marketing"} /\ has_projects
        THEN CREATIVE
        ELSE IF industry \in {"education", "research"} \/ data.publications
        THEN ACADEMIC
        ELSE IF industry = "technology" /\ skills_count > 15 THEN TWO_COLUMN
        ELSE SINGLE_COLUMN

_choose_optimal_layout_type(data, experience_level, industry) ==
    LET work_experience_count == Len(data.work_experience)
        has_projects == data.projects # <<>>
        skills_count == SumSeq(data.skills)
    IN  IF experience_level = "senior" /\ work_experience_count >= 4 THEN EXECUTIVE
        ELSE IF industry \in {"creative", "design", "marketing"} /\ has_projects
        THEN CREATIVE
        ELSE IF industry = "technology" /\ skills_count > 15 THEN TWO_COLUMN
        ELSE IF industry \in {"education", "research"} \/ data.publications
        THEN ACADEMIC
        ELSE SINGLE_COLUMN

\* a format table whose fallback is the letter page
FormatConstraintsLetterFallback(target_format) ==
    IF target_format = "pdf" THEN DefaultConstraints
    ELSE IF target_format = "letter"
    THEN PageConstraints(2159000, 2794000, MM(20), MM(20), MM(20), MM(20))
    ELSE IF target_format = "web"
    THEN PageConstraints(MM(190), MM(1000), MM(20), MM(20), MM(10), MM(10))
    ELSE PageConstraints(2159000, 2794000, MM(20), MM(20), MM(20), MM(20))

\* a format table that has lost its web entry
FormatConstraintsWithoutWeb(target_format) ==
    IF target_format = "pdf" THEN DefaultConstraints
    ELSE IF target_format = "letter"
    THEN PageConstraints(2159000, 2794000, MM(20), MM(20), MM(20), MM(20))
    ELSE DefaultConstraints

_get_format_constraints(target_format) ==
    IF target_format = "pdf" THEN DefaultConstraints
    ELSE IF target_format = "letter"
    THEN PageConstraints(2159000, 2794000, MM(20), MM(20), MM(20), MM(20))
    ELSE IF target_format = "web"
    THEN PageConstraints(MM(190), MM(1000), MM(20), MM(20), MM(10), MM(10))
    ELSE DefaultConstraints

\* adjustments that add the closing note before the prioritization suggestion
AdjustmentsClosingNoteEarly(res, data) ==
    LET low == res.layout_score < 60
        recs == (IF low THEN <<Text("Consider condensing content for better layout")>>
                 ELSE <<>>)
             \o res.recommendations
             \o <<Text("Layout is optimized for both print and digital viewing")>>
             \o (IF low /\ Len(res.pages) > 2
                 THEN <<Text("Prioritize most relevant experience and skills")>> ELSE <<>>)
    IN  [res EXCEPT !.recommendations = recs]

_apply_responsive_adjustments(res, data) ==
    LET low == res.layout_score < 60
        recs == (IF low THEN <<Text("Consider condensing content for better layout")>>
                 ELSE <<>>)
             \o res.recommendations
             \o (IF low /\ Len(res.pages) > 2
                 THEN <<Text("Prioritize most relevant experience and skills")>> ELSE <<>>)
             \o <<Text("Layout is optimized for both print and digital viewing")>>
    IN  [res EXCEPT !.recommendations = recs]

generate_optimal_layout(data, target_format, experience_level, industry) ==
    LET lt == _choose_optimal_layout_type(data, experience_level, industry)
        c == _get_format_constraints(target_format)
    IN  _apply_responsive_adjustments(optimize_layout(data, lt, c), data)


(* -------------------------------- inputs ------------------------------- *)

\* number of summary lengths tried beyond the absent summary
MaxSummary == 2

\* the longest work_experience list
MaxJobs == 8

\* the longest education list
MaxEducation == 1

EmptyDetails == [full_name |-> 0, desired_position |-> 0, contact_items |-> 0]

\* "Jane Doe", a desired position and the four contact fields
TypicalDetails == [full_name |-> 8, desired_position |-> 17, contact_items |-> 4]

\* n entries of k achievements, each of len characters
Jobs(n, k, len) == [j \in 1..n |-> [a \in 1..k |-> len]]

ExperienceChoices ==
    {<<>>, Jobs(1, 3, 40), Jobs(4, 3, 80), Jobs(MaxJobs, 5, 120),
     Jobs(2 * MaxJobs, 5, 120)}

\* no skills, 15 skills in two categories, 16 skills in three
SkillsChoices == {<<>>, <<8, 7>>, <<8, 6, 2>>}

ProjectsChoices == {<<>>, <<[description |-> 100, technologies |-> 3]>>}

Contents ==
    [has_personal_details : {TRUE},
     personal_details : {EmptyDetails, TypicalDetails},
     professional_summary : {k * 1950 : k \in 0..MaxSummary},
     work_experience : ExperienceChoices,
     skills : SkillsChoices,
     education : 0..MaxEducation,
     projects : ProjectsChoices,
     publications : BOOLEAN]
    \cup
    [has_personal_details : {FALSE},
     personal_details : {EmptyDetails},
     professional_summary : {k * 1950 : k \in 0..MaxSummary},
     work_experience : ExperienceChoices,
     skills : SkillsChoices,
     education : 0..MaxEducation,
     projects : ProjectsChoices,
     publications : BOOLEAN]

Formats == {"pdf", "letter", "web", "docx"}

ExperienceLevels == {"mid", "senior"}

Industries == {"general", "technology", "creative", "design", "marketing",
               "education", "research"}

\* the LayoutType members and one value that is none of them
LayoutTypeArgs == LayoutType \cup {"portfolio"}

\* the constraints of the formats, a small page of the caller's own, and a
\* page whose 2mm content width leaves room for no character of body text
ConstraintChoices ==
    {_get_format_constraints(f) : f \in Formats}
    \cup {PageConstraints(MM(148), MM(210), MM(15), MM(15), MM(15), MM(15)),
          PageConstraints(MM(42), MM(297), MM(20), MM(20), MM(20), MM(20))}

NoResult == LayoutResult(<<>>, 0, <<>>, 0, <<>>)

NoCall == [op |-> "none", target_format |-> "", experience_level |-> "",
           industry |-> ""]

\* content with no section at all
NoContent ==
    [has_personal_details |-> FALSE, personal_details |-> EmptyDetails,
     professional_summary |-> 0, work_experience |-> <<>>, skills |-> <<>>,
     education |-> 0, projects |-> <<>>, publications |-> FALSE]

\* the invocations of generate that may run at the same time
Threads == {1, 2}

\* an invocation that has not started; its locals hold nothing yet
IdleThread ==
    [at |-> "idle", data |-> NoContent,
     args |-> [target_format |-> "", experience_level |-> "", industry |-> ""],
     layout_type |-> SINGLE_COLUMN, constraints |-> DefaultConstraints,
     sections |-> <<>>, todo |-> <<>>,
     st |-> StartOfPlacement(DefaultConstraints), met |-> FALSE,
     result |-> NoResult]

\* nothing has been measured
NoMeasurement == <<>>

(* ----------------------------- state machine --------------------------- *)

Init ==
    /\ cv_data \in Contents
    /\ char_widths = InitialCharWidths
    /\ pc = "idle"
    /\ call = NoCall
    /\ layout_type = SINGLE_COLUMN
    /\ constraints = DefaultConstraints
    /\ sections = <<>>
    /\ result = NoResult
    /\ first = <<>>
    /\ threads = [t \in Threads |-> IdleThread]
    /\ measured = NoMeasurement

\* SectionAnalyzer.analyze_cv_sections called on the shared analyzer
Analyze(lt, c) ==
    /\ pc = "idle"
    /\ pc' = "returned"
    /\ call' = [NoCall EXCEPT !.op = "analyze"]
    /\ layout_type' = lt
    /\ constraints' = c
    /\ sections' = analyze_cv_sections(cv_data, c, lt)
    /\ result' = NoResult
    /\ UNCHANGED <<cv_data, char_widths>>

\* LayoutOptimizer.optimize_layout called on the shared optimizer
Optimize(lt, c) ==
    /\ pc = "idle"
    /\ pc' = "returned"
    /\ call' = [NoCall EXCEPT !.op = "optimize"]
    /\ layout_type' = lt
    /\ constraints' = c
    /\ sections' = analyze_cv_sections(cv_data, c, lt)
    /\ result' = optimize_layout(cv_data, lt, c)
    /\ UNCHANGED <<cv_data, char_widths>>

\* generate that overwrites the measurer's body-text width in place when the
\* target is the web page
GenerateAdjustingCharWidths(target_format, experience_level, industry) ==
    /\ pc = "idle"
    /\ pc' = "returned"
    /\ call' = [op |-> "generate", target_format |-> target_format,
                experience_level |-> experience_level, industry |-> industry]
    /\ layout_type' = _choose_optimal_layout_type(cv_data, experience_level, industry)
    /\ constraints' = _get_format_constraints(target_format)
    /\ sections' = analyze_cv_sections(cv_data, constraints', layout_type')
    /\ result' = generate_optimal_layout(cv_data, target_format, experience_level,
                                         industry)
    /\ char_widths' = IF target_format = "web"
                      THEN [char_widths EXCEPT ![11] = 30000] ELSE char_widths
    /\ UNCHANGED cv_data

\* generate that takes the publications entry out of the caller's mapping
\* while it reads it
GeneratePoppingPublications(target_format, experience_level, industry) ==
    /\ pc = "idle"
    /\ pc' = "returned"
    /\ call' = [op |-> "generate", target_format |-> target_format,
                experience_level |-> experience_level, industry |-> industry]
    /\ layout_type' = _choose_optimal_layout_type(cv_data, experience_level, industry)
    /\ constraints' = _get_format_constraints(target_format)
    /\ sections' = analyze_cv_sections(cv_data, constraints', layout_type')
    /\ result' = generate_optimal_layout(cv_data, target_format, experience_level,
                                         industry)
    /\ cv_data' = [cv_data EXCEPT !.publications = FALSE]
    /\ UNCHANGED char_widths

\* ResponsiveLayoutService.generate_optimal_layout on the global layout_service
Generate(target_format, experience_level, industry) ==
    /\ pc = "idle"
    /\ pc' = "returned"
    /\ call' = [op |-> "generate", target_format |-> target_format,
                experience_level |-> experience_level, industry |-> industry]
    /\ layout_type' = _choose_optimal_layout_type(cv_data, experience_level, industry)
    /\ constraints' = _get_format_constraints(target_format)
    /\ sections' = analyze_cv_sections(cv_data, constraints', layout_type')
    /\ result' = generate_optimal_layout(cv_data, target_format, experience_level,
                                         industry)
    /\ UNCHANGED <<cv_data, char_widths>>

\* the caller takes the returned value; the service is ready for the next call
Return ==
    /\ pc = "returned"
    /\ pc' = "idle"
    /\ call' = NoCall
    /\ layout_type' = SINGLE_COLUMN
    /\ constraints' = DefaultConstraints
    /\ sections' = <<>>
    /\ result' = NoResult
    /\ UNCHANGED <<cv_data, char_widths>>

AnalyzeCvSections ==
    \E lt \in LayoutTypeArgs, c \in ConstraintChoices :
        Analyze(lt, c) /\ UNCHANGED <<first, threads, measured>>

OptimizeLayout ==
    \E lt \in LayoutTypeArgs, c \in ConstraintChoices :
        Optimize(lt, c) /\ UNCHANGED <<first, threads, measured>>

GenerateOptimalLayout ==
    \E f \in Formats, lvl \in ExperienceLevels, ind \in Industries :
        Generate(f, lvl, ind) /\ UNCHANGED <<first, threads, measured>>

Respond == Return /\ UNCHANGED <<first, threads, measured>>

Next == AnalyzeCvSections \/ OptimizeLayout \/ GenerateOptimalLayout \/ Respond

Spec == Init /\ [][Next]_vars

(* ----------- the same service, remembering what generate returned ------- *)

\* the contents followed through repeated invocations
RepeatContents ==
    {d \in Contents :
        /\ d.has_personal_details /\ d.personal_details = TypicalDetails
        /\ d.skills = <<8, 6, 2>> /\ d.education = MaxEducation
        /\ d.professional_summary = 1950
        /\ d.projects # <<>> /\ ~d.publications}

InitRepeat == Init /\ cv_data \in RepeatContents

\* an invocation other than the remembered one has returned since
NoteOther(f) == IF f = <<>> THEN f ELSE <<[f[1] EXCEPT !.others = TRUE]>>

\* the first invocation of generate is remembered with its result
Remember(f, c, r) ==
    IF f = <<>> THEN <<[call |-> c, result |-> r, others |-> FALSE]>>
    ELSE IF f[1].call = c THEN f
    ELSE NoteOther(f)

AnalyzeAmongOthers ==
    \E lt \in LayoutTypeArgs, c \in ConstraintChoices :
        Analyze(lt, c) /\ first' = NoteOther(first)
        /\ UNCHANGED <<threads, measured>>

OptimizeAmongOthers ==
    \E lt \in LayoutTypeArgs, c \in ConstraintChoices :
        Optimize(lt, c) /\ first' = NoteOther(first)
        /\ UNCHANGED <<threads, measured>>

GenerateRemembered ==
    \E f \in Formats, lvl \in ExperienceLevels, ind \in Industries :
        Generate(f, lvl, ind) /\ first' = Remember(first, call', result')
        /\ UNCHANGED <<threads, measured>>

NextRepeat ==
    AnalyzeAmongOthers \/ OptimizeAmongOthers \/ GenerateRemembered \/ Respond

SpecRepeat == InitRepeat /\ [][NextRepeat]_vars

(* ------------------- the /layout/optimize endpoint ---------------------- *)

\* layout_type_map.get(request.layout_type, LayoutType.SINGLE_COLUMN)
LayoutTypeMap(name) ==
    IF name = "single_column" THEN SINGLE_COLUMN
    ELSE IF name = "two_column" THEN TWO_COLUMN
    ELSE IF name = "modern_sidebar" THEN MODERN_SIDEBAR
    ELSE IF name = "executive" THEN EXECUTIVE
    ELSE IF name = "academic" THEN ACADEMIC
    ELSE IF name = "creative" THEN CREATIVE
    ELSE SINGLE_COLUMN

\* the layout_type strings of the requests; "portfolio" is not in the map
RequestLayoutTypes ==
    {"single_column", "two_column", "modern_sidebar", "executive", "portfolio"}

RequestFormats == {"pdf", "web"}

RequestIndustries == {"general", "technology"}

\* an endpoint that lays the content out with the requested layout type
PostLayoutOptimizeAsRequested(name, target_format, experience_level, industry) ==
    /\ pc = "idle"
    /\ pc' = "returned"
    /\ call' = [op |-> "endpoint", layout_type |-> name,
                target_format |-> target_format,
                experience_level |-> experience_level, industry |-> industry]
    /\ layout_type' = LayoutTypeMap(name)
    /\ constraints' = _get_format_constraints(target_format)
    /\ sections' = analyze_cv_sections(cv_data, constraints', layout_type')
    /\ result' = _apply_responsive_adjustments(
                     optimize_layout(cv_data, layout_type', constraints'), cv_data)
    /\ UNCHANGED <<cv_data, char_widths>>

\* POST /layout/optimize: the requested layout type is looked up and then
\* left unused; the layout is the one generate_optimal_layout chooses
PostLayoutOptimize(name, target_format, experience_level, industry) ==
    /\ pc = "idle"
    /\ pc' = "returned"
    /\ call' = [op |-> "endpoint", layout_type |-> name,
                target_format |-> target_format,
                experience_level |-> experience_level, industry |-> industry]
    /\ LayoutTypeMap(name) \in LayoutType
    /\ layout_type' = _choose_optimal_layout_type(cv_data, experience_level, industry)
    /\ constraints' = _get_format_constraints(target_format)
    /\ sections' = analyze_cv_sections(cv_data, constraints', layout_type')
    /\ result' = generate_optimal_layout(cv_data, target_format, experience_level,
                                         industry)
    /\ UNCHANGED <<cv_data, char_widths>>

\* the first request of the run is remembered with its response
OptimizeEndpoint ==
    \E name \in RequestLayoutTypes, f \in RequestFormats,
       lvl \in ExperienceLevels, ind \in RequestIndustries :
        /\ PostLayoutOptimize(name, f, lvl, ind)
        /\ first' = IF first = <<>>
                    THEN <<[call |-> call', result |-> result', others |-> FALSE]>>
                    ELSE first
        /\ UNCHANGED <<threads, measured>>

NextEndpoint == OptimizeEndpoint \/ Respond

SpecEndpoint == InitRepeat /\ [][NextEndpoint]_vars

(* ------------- generate invoked concurrently on the one service -------- *)

\* the contents the concurrent invocations are given
ConcurrentContents ==
    {d \in RepeatContents :
        d.work_experience \in {Jobs(4, 3, 80), Jobs(MaxJobs, 5, 120)}}

\* their other arguments: single column on A4 and on the web page, two columns
ConcurrentCalls ==
    {[target_format |-> "pdf", experience_level |-> "mid", industry |-> "general"],
     [target_format |-> "web", experience_level |-> "mid", industry |-> "general"],
     [target_format |-> "pdf", experience_level |-> "mid", industry |-> "technology"]}

InitConcurrent == Init /\ cv_data = NoContent

\* the variables no concurrent invocation touches
ServiceVars == <<cv_data, char_widths, pc, call, layout_type, constraints,
                 sections, result, first, measured>>

\* the invocation loops over its sections with the single-column strategy
InLoop(u) ==
    /\ threads[u].at = "placing"
    /\ threads[u].layout_type \notin {TWO_COLUMN, MODERN_SIDEBAR}

\* it has placed a section and has more to place
MidLoop(u) ==
    /\ InLoop(u)
    /\ threads[u].todo # <<>>
    /\ threads[u].todo # threads[u].sections

\* lines 664-670 and 396-398, 413-419: the invocation chooses the layout type
\* and the page, analyses its content and sets up its local variables
Enter(t) ==
    /\ threads[t].at = "idle"
    /\ \E d \in ConcurrentContents, a \in ConcurrentCalls :
          LET lt == _choose_optimal_layout_type(d, a.experience_level, a.industry)
              c == _get_format_constraints(a.target_format)
              secs == analyze_cv_sections(d, c, lt)
          IN  threads' = [threads EXCEPT ![t] =
                  [at |-> "placing", data |-> d, args |-> a, layout_type |-> lt,
                   constraints |-> c, sections |-> secs, todo |-> secs,
                   st |-> StartOfPlacement(c), met |-> FALSE, result |-> NoResult]]
    /\ UNCHANGED ServiceVars

\* one pass of the loop that writes its new state where every invocation
\* in the loop reads it
PlaceOnSharedState(t) ==
    /\ InLoop(t)
    /\ threads[t].todo # <<>>
    /\ LET new == PlaceSection(threads[t].st, Head(threads[t].todo),
                               threads[t].constraints)
       IN  threads' = [u \in Threads |->
               IF u = t
               THEN [threads[t] EXCEPT
                       !.st = new, !.todo = Tail(@),
                       !.met = @ \/ \E v \in Threads \ {t} : MidLoop(v)]
               ELSE IF InLoop(u) THEN [threads[u] EXCEPT !.st = new]
               ELSE threads[u]]
    /\ UNCHANGED ServiceVars

\* lines 421-476: one pass of the loop, on the invocation's own variables
Place(t) ==
    /\ InLoop(t)
    /\ threads[t].todo # <<>>
    /\ threads' = [threads EXCEPT
           ![t].st = PlaceSection(@, Head(threads[t].todo), threads[t].constraints),
           ![t].todo = Tail(@),
           ![t].met = @ \/ \E v \in Threads \ {t} : MidLoop(v)]
    /\ UNCHANGED ServiceVars

\* lines 478-494 and 714-730: the result is built and adjusted; the two-column
\* strategy, which has no loop over pages, runs here in one piece
Finish(t) ==
    /\ threads[t].at = "placing"
    /\ InLoop(t) => threads[t].todo = <<>>
    /\ LET th == threads[t]
           res == IF InLoop(t) THEN CompletePlacement(th.st, th.sections)
                  ELSE Strategy(th.sections, th.layout_type, th.constraints)
       IN  threads' = [threads EXCEPT
               ![t].at = "done",
               ![t].result = _apply_responsive_adjustments(res, th.data)]
    /\ UNCHANGED ServiceVars

\* the caller takes the result; the locals are gone
Leave(t) ==
    /\ threads[t].at = "done"
    /\ threads' = [threads EXCEPT ![t] = IdleThread]
    /\ UNCHANGED ServiceVars

EnterGenerate == \E t \in Threads : Enter(t)

PlaceNextSection == \E t \in Threads : Place(t)

FinishGenerate == \E t \in Threads : Finish(t)

LeaveGenerate == \E t \in Threads : Leave(t)

NextConcurrent ==
    EnterGenerate \/ PlaceNextSection \/ FinishGenerate \/ LeaveGenerate

SpecConcurrent == InitConcurrent /\ [][NextConcurrent]_vars

(* ------------------ the measurer applied to pairs of texts -------------- *)

\* the longest text A
MaxTextLen == 8

\* the longest text appended to A
MaxExtraLen == 4

\* a width with room for no character, a narrow one and the A4 content width
MeasureWidths == {MM(1), MM(5), MM(170)}

\* the title, body and small fonts
MeasureFontSizes == {24, 11, 9}

\* the line-height multipliers the analyzer passes, in tenths
MeasureLineHeights == {13, 14, 15}

InitMeasure == Init /\ cv_data = NoContent

\* ContentMeasurer.estimate_text_height called on A and on A + extra
EstimateTextHeight ==
    /\ measured = NoMeasurement
    /\ \E a \in 0..MaxTextLen, extra \in 1..MaxExtraLen, fs \in MeasureFontSizes,
          w \in MeasureWidths, lh \in MeasureLineHeights :
           measured' = [text_a |-> a, text_b |-> a + extra, font_size |-> fs,
                        max_width_mm |-> w, line_height |-> lh,
                        height_a |-> estimate_text_height(a, fs, w, lh),
                        height_b |-> estimate_text_height(a + extra, fs, w, lh)]
    /\ UNCHANGED <<cv_data, char_widths, pc, call, layout_type, constraints,
                   sections, result, first, threads>>

\* the caller takes the two heights
TakeHeights ==
    /\ measured # NoMeasurement
    /\ measured' = NoMeasurement
    /\ UNCHANGED <<cv_data, char_widths, pc, call, layout_type, constraints,
                   sections, result, first, threads>>

NextMeasure == EstimateTextHeight \/ TakeHeights

SpecMeasure == InitMeasure /\ [][NextMeasure]_vars

(* ------------------------------- properties ---------------------------- *)

Returned(ops) == pc = "returned" /\ call.op \in ops

\* the last call returned a LayoutResult placed by _optimize_single_column
SingleColumnResult ==
    /\ Returned({"optimize", "generate"})
    /\ layout_type \notin {TWO_COLUMN, MODERN_SIDEBAR}

\* the last call returned a LayoutResult placed by _optimize_two_column
TwoColumnResult ==
    /\ Returned({"optimize", "generate"})
    /\ layout_type \in {TWO_COLUMN, MODERN_SIDEBAR}

\* the elements of a result, page by page
RECURSIVE Flatten(_)
Flatten(pages) == IF pages = <<>> THEN <<>> ELSE Head(pages) \o Flatten(Tail(pages))

ElementsOf(res) == {Flatten(res.pages)[i] : i \in 1..Len(Flatten(res.pages))}

SectionIds(secs) == {secs[i].section_id : i \in 1..Len(secs)}

\* C1: in a single-column result, two elements of the same page never overlap
\* vertically: each later element of a page starts at or below the end
\* (y + height) of every earlier one.
C1_NoVerticalOverlap ==
    SingleColumnResult =>
        \A p \in 1..Len(result.pages) :
            \A i, j \in 1..Len(result.pages[p]) :
                i < j => result.pages[p][i].y_mm + result.pages[p][i].height_mm
                         <= result.pages[p][j].y_mm

\* a page holding three elements, one of them placed at its minimum height
C1_Witness ==
    /\ SingleColumnResult
    /\ \E p \in 1..Len(result.pages) :
          /\ Len(result.pages[p]) >= 3
          /\ \E i \in 1..Len(result.pages[p]) :
                result.pages[p][i].element_id \in
                    {result.overflow_sections[k] : k \in 1..Len(result.overflow_sections)}

\* C2 (as claimed): every element of a single-column result lies between the
\* top margin and the bottom margin of the page, for constraints with
\* positive content height.
C2_WithinPage ==
    (SingleColumnResult /\ content_height_mm(constraints) > 0) =>
        \A e \in ElementsOf(result) :
            /\ constraints.margin_top_mm <= e.y_mm
            /\ e.y_mm + e.height_mm
               <= constraints.height_mm - constraints.margin_bottom_mm

\* sum of the preferred heights plus the 5mm gaps between the sections
PreferredTotal(secs) ==
    SumSeq([i \in 1..Len(secs) |-> secs[i].preferred_height_mm])
    + (IF Len(secs) > 1 THEN (Len(secs) - 1) * MM(5) ELSE 0)

FitsOnOnePage(secs, c) == PreferredTotal(secs) <= content_height_mm(c)

\* C3 (as claimed): every section list, the empty one included, whose
\* preferred heights plus gaps fit the content height of one page is placed
\* on exactly one page with no overflow.
C3_FitsOnePage_Original ==
    (SingleColumnResult /\ FitsOnOnePage(sections, constraints)) =>
        /\ result.total_pages = 1
        /\ result.overflow_sections = <<>>

\* C3 (amended): every non-empty section list whose preferred heights plus
\* gaps fit the content height of one page is placed on exactly one page
\* with no overflow; the empty list gives no page at all.
C3_FitsOnePage ==
    (SingleColumnResult /\ FitsOnOnePage(sections, constraints)) =>
        /\ result.total_pages = (IF sections = <<>> THEN 0 ELSE 1)
        /\ result.overflow_sections = <<>>

\* four sections that fit one page with less than 20mm to spare
C3_Witness ==
    /\ SingleColumnResult
    /\ Len(sections) >= 4
    /\ FitsOnOnePage(sections, constraints)
    /\ PreferredTotal(sections) + MM(20) > content_height_mm(constraints)
    /\ result.total_pages = 1

\* C4: the layout_score of every LayoutResult, of either strategy, is an
\* integer from 0 to 100.
C4_ScoreInRange ==
    Returned({"optimize", "generate"}) => result.layout_score \in 0..100

\* a one-page result whose two CRITICAL sections earn the bonus that the
\* clamp cuts off
C4_Witness ==
    /\ SingleColumnResult
    /\ result.total_pages = 1
    /\ result.overflow_sections = <<>>
    /\ UtilizationPenalty(result.pages[1]) = 0
    /\ Cardinality(CriticalSections(sections) \cap ElementIds(result.pages[1])) = 2
    /\ result.layout_score = 100

\* C5: every SectionDimensions the analyzer returns has
\* min_height <= preferred_height <= max_height.
C5_HeightsOrdered ==
    Returned({"analyze", "optimize", "generate"}) =>
        \A i \in 1..Len(sections) :
            /\ sections[i].min_height_mm <= sections[i].preferred_height_mm
            /\ sections[i].preferred_height_mm <= sections[i].max_height_mm

\* the analyzer returned all six sections, for a two-column layout
C5_Witness ==
    /\ Returned({"analyze"})
    /\ Len(sections) = 6
    /\ layout_type = TWO_COLUMN
    /\ \A i \in 1..Len(sections) :
          sections[i].min_height_mm < sections[i].max_height_mm


\* C6: generate is deterministic: an invocation with the inputs of the
\* remembered first invocation, after any other invocations on the same
\* service instance, returns the identical LayoutResult.
C6_Deterministic ==
    (Returned({"generate"}) /\ first # <<>> /\ first[1].call = call) =>
        result = first[1].result

\* the remembered invocation is repeated after other invocations returned,
\* and its result has several pages and a truncated section
C6_Witness ==
    /\ Returned({"generate"})
    /\ first # <<>>
    /\ first[1].call = call
    /\ first[1].others
    /\ result.total_pages >= 2
    /\ result.overflow_sections # <<>>
    /\ result = first[1].result

ElementFor(res, id) == {e \in ElementsOf(res) : e.element_id = id}

OverflowIds(res) == {res.overflow_sections[k] : k \in 1..Len(res.overflow_sections)}

\* C7 (as claimed): a section whose min_height exceeds the content height of
\* a page is still placed by the single-column strategy, clipped to the
\* content height, and its id is recorded in overflow_sections.
C7_ClippedIsFlagged ==
    SingleColumnResult =>
        \A i \in 1..Len(sections) :
            sections[i].min_height_mm > content_height_mm(constraints) =>
                /\ \E e \in ElementFor(result, sections[i].section_id) :
                      e.height_mm = content_height_mm(constraints)
                /\ sections[i].section_id \in OverflowIds(result)

\* the CRITICAL sections of a list, in order
CriticalOf(secs) == SelectSeq(secs, LAMBDA s : s.priority = CRITICAL)

\* the height the CRITICAL sections need together: a non-splittable one at
\* its preferred height, a splittable one at its minimum, 5mm between them
CriticalTotal(secs) ==
    LET crit == CriticalOf(secs)
    IN  SumSeq([i \in 1..Len(crit) |->
                    IF crit[i].can_split THEN crit[i].min_height_mm
                    ELSE crit[i].preferred_height_mm])
        + (IF Len(crit) > 1 THEN (Len(crit) - 1) * MM(5) ELSE 0)

\* C8 (as claimed): when the CRITICAL sections together fit the content
\* height of one page, the element of every CRITICAL section has
\* page_number 1 and is stored in the first page of the result.
C8_CriticalOnFirstPage ==
    (SingleColumnResult /\ CriticalTotal(sections) <= content_height_mm(constraints)) =>
        \A id \in CriticalSections(sections) :
            /\ \A e \in ElementFor(result, id) : e.page_number = 1
            /\ id \in ElementIds(result.pages[1])

\* C9 (as claimed): every element stored in the i-th page has page_number i,
\* and total_pages is the number of pages and the largest page_number used.
C9_PageNumbersConsistent ==
    Returned({"optimize", "generate"}) =>
        /\ \A i \in 1..Len(result.pages) :
              \A k \in 1..Len(result.pages[i]) :
                  result.pages[i][k].page_number = i
        /\ result.total_pages = Len(result.pages)
        /\ \A e \in ElementsOf(result) : e.page_number <= result.total_pages
        /\ result.pages # <<>> =>
              \E e \in ElementsOf(result) : e.page_number = result.total_pages

MainIds == {"header", "professional_summary", "work_experience"}

SidebarIds == {"skills", "education"}

\* C10 (as claimed): the two-column placement of content with header,
\* summary, experience, skills and education is one page, and every sidebar
\* element (skills, education) has x strictly greater than x + width of
\* every main-column element (header, summary, experience).
C10_SidebarRightOfMain ==
    (/\ Returned({"optimize", "generate"})
     /\ layout_type = TWO_COLUMN
     /\ SectionIds(sections) = MainIds \cup SidebarIds) =>
        /\ result.total_pages = 1
        /\ Len(result.pages) = 1
        /\ \A sd \in ElementsOf(result), mn \in ElementsOf(result) :
              (sd.element_id \in SidebarIds /\ mn.element_id \in MainIds) =>
                  sd.x_mm > mn.x_mm + mn.width_mm


\* generate returned for the web format
WebResult == Returned({"generate"}) /\ call.target_format = "web"

\* a section after the first whose min_height alone fills the content height
TallLaterSection ==
    /\ layout_type \notin {TWO_COLUMN, MODERN_SIDEBAR}
    /\ \E i \in 2..Len(sections) :
           sections[i].min_height_mm >= content_height_mm(constraints)

\* C11 as stated: for the web format the page height is at least 1000mm and
\* generate returns total_pages = 1 for any content.
C11_WebSinglePage_Original ==
    WebResult =>
        /\ constraints.height_mm >= MM(1000)
        /\ result.total_pages = 1

\* C11: for the web format the page height is at least 1000mm; generate
\* returns total_pages = 1 for every non-empty content none of whose sections
\* after the first has a min_height reaching the 960mm content height, long
\* content that needs several A4 pages included; empty content gives
\* total_pages = 0 and such a tall later section starts a second page.
C11_WebSinglePage ==
    WebResult =>
        /\ constraints.height_mm >= MM(1000)
        /\ (sections # <<>> /\ ~TallLaterSection) => result.total_pages = 1
        /\ sections = <<>> => result.total_pages = 0
        /\ TallLaterSection => result.total_pages >= 2

\* long content laid out on one web page that takes several pages as pdf
C11_Witness ==
    /\ WebResult
    /\ result.total_pages = 1
    /\ generate_optimal_layout(cv_data, "pdf", call.experience_level,
                               call.industry).total_pages >= 2

\* the conditions of the four selection rules, for the call that returned
SeniorRule ==
    call.experience_level = "senior" /\ Len(cv_data.work_experience) >= 4

CreativeRule ==
    call.industry \in {"creative", "design", "marketing"} /\ cv_data.projects # <<>>

TechnologyRule ==
    call.industry = "technology" /\ SumSeq(cv_data.skills) > 15

AcademicRule ==
    call.industry \in {"education", "research"} \/ cv_data.publications

\* C12: the layout type generate uses is chosen by five rules in order, the
\* first that matches winning: senior with at least 4 experience entries gives
\* EXECUTIVE whatever the industry; else a creative, design or marketing
\* industry with projects gives CREATIVE; else technology with more than 15
\* skills gives TWO_COLUMN; else an education or research industry, or
\* publications, gives ACADEMIC; else SINGLE_COLUMN.
C12_SelectionOrder ==
    Returned({"generate"}) =>
        /\ SeniorRule => layout_type = EXECUTIVE
        /\ (~SeniorRule /\ CreativeRule) => layout_type = CREATIVE
        /\ (~SeniorRule /\ ~CreativeRule /\ TechnologyRule) =>
               layout_type = TWO_COLUMN
        /\ (~SeniorRule /\ ~CreativeRule /\ ~TechnologyRule /\ AcademicRule) =>
               layout_type = ACADEMIC
        /\ (~SeniorRule /\ ~CreativeRule /\ ~TechnologyRule /\ ~AcademicRule) =>
               layout_type = SINGLE_COLUMN

\* the technology rule and the academic rule both match and the earlier wins
C12_Witness ==
    /\ Returned({"generate"})
    /\ ~SeniorRule /\ TechnologyRule /\ AcademicRule
    /\ layout_type = TWO_COLUMN

\* the A4 page with 20mm margins on all four sides
A4Page ==
    [width_mm |-> 2100000, height_mm |-> 2970000,
     margin_top_mm |-> 200000, margin_bottom_mm |-> 200000,
     margin_left_mm |-> 200000, margin_right_mm |-> 200000]

\* C13: generate derives the page from target_format: "pdf" gives A4 210x297
\* with 20mm margins on all four sides, "letter" gives 215.9x279.4, "web"
\* gives 190x1000 with 10mm left and right margins, and every other string
\* gives exactly A4.
C13_FormatConstraints ==
    Returned({"generate"}) =>
        /\ call.target_format = "pdf" => constraints = A4Page
        /\ call.target_format = "letter" =>
               constraints = [A4Page EXCEPT !.width_mm = 2159000,
                                            !.height_mm = 2794000]
        /\ call.target_format = "web" =>
               constraints = [A4Page EXCEPT !.width_mm = 1900000,
                                            !.height_mm = 10000000,
                                            !.margin_left_mm = 100000,
                                            !.margin_right_mm = 100000]
        /\ call.target_format \notin {"pdf", "letter", "web"} =>
               constraints = A4Page

\* generate returned a layout for a format string the table does not know
C13_Witness ==
    /\ Returned({"generate"})
    /\ call.target_format = "docx"
    /\ constraints = A4Page
    /\ result.pages # <<>>

\* the layout types optimize_layout has no strategy for
NoStrategyOfItsOwn == LayoutTypeArgs \ {SINGLE_COLUMN, TWO_COLUMN, MODERN_SIDEBAR}

\* C14: for a layout type without a strategy of its own (executive, academic,
\* creative, or a value that is no LayoutType) optimize_layout returns exactly
\* the LayoutResult it returns for SINGLE_COLUMN on the same content and
\* constraints.
C14_FallbackSingleColumn ==
    (Returned({"optimize"}) /\ layout_type \in NoStrategyOfItsOwn) =>
        result = optimize_layout(cv_data, SINGLE_COLUMN, constraints)

\* the fallback laid out content that has skills and spans several pages
C14_Witness ==
    /\ Returned({"optimize"})
    /\ layout_type = "portfolio"
    /\ cv_data.skills # <<>>
    /\ result.total_pages >= 2
    /\ result = optimize_layout(cv_data, SINGLE_COLUMN, constraints)

\* the ids of the content's non-empty sections, in canonical order
NonEmptySectionIds(data) ==
       (IF data.has_personal_details /\ data.personal_details # EmptyDetails
        THEN <<"header">> ELSE <<>>)
    \o (IF data.professional_summary # 0 THEN <<"professional_summary">> ELSE <<>>)
    \o (IF data.work_experience # <<>> THEN <<"work_experience">> ELSE <<>>)
    \o (IF data.skills # <<>> THEN <<"skills">> ELSE <<>>)
    \o (IF data.education # 0 THEN <<"education">> ELSE <<>>)
    \o (IF data.projects # <<>> THEN <<"projects">> ELSE <<>>)

\* C15 (as claimed): the analyzer returns exactly one SectionDimensions for
\* each section that is present and non-empty, none for an absent or empty
\* one (an empty personal_details mapping included), in the canonical order
\* header, summary, experience, skills, education, projects.
C15_OnePerNonEmptySection ==
    Returned({"analyze", "optimize", "generate"}) =>
        [i \in 1..Len(sections) |-> sections[i].section_id]
            = NonEmptySectionIds(cv_data)

\* a single-column layout on default A4 of content with 8 work_experience
\* entries of 5 achievements of 120 characters (about 20 words) each
EightEntriesSingleColumnA4 ==
    /\ Returned({"optimize", "generate"})
    /\ layout_type = SINGLE_COLUMN
    /\ constraints = DefaultConstraints
    /\ cv_data.work_experience = Jobs(8, 5, 120)

\* the recommendations of the result, as a set
RecommendationsOf(res) ==
    {res.recommendations[i] : i \in 1..Len(res.recommendations)}

PlacedAtMinimum ==
    {i \in 1..Len(sections) :
        /\ sections[i].can_split
        /\ sections[i].min_height_mm < sections[i].preferred_height_mm
        /\ \E e \in ElementFor(result, sections[i].section_id) :
               e.height_mm = sections[i].min_height_mm}

\* C20 (as claimed): in single-column placement a splittable section whose
\* preferred height does not fit is placed at min_height on the current page
\* only when min_height fits in the space remaining there, that is when
\* current_y + min_height <= page_height - bottom_margin.
C20_MinimumFitsRemaining ==
    SingleColumnResult =>
        \A i \in PlacedAtMinimum :
            \A e \in ElementFor(result, sections[i].section_id) :
                e.y_mm + sections[i].min_height_mm
                    <= constraints.height_mm - constraints.margin_bottom_mm

\* C17: generate has no side effects: across the call the content mapping
\* handed in is unchanged and the state held by the service and its
\* optimizer, analyzer and measurer is what it was before.
C17_NoSideEffects ==
    [][(pc = "idle" /\ call'.op = "generate") =>
           (cv_data' = cv_data /\ char_widths' = char_widths)]_vars

\* generate returned a result it had adjusted, for content with publications
C17_Witness ==
    /\ Returned({"generate"})
    /\ cv_data.publications
    /\ Len(result.recommendations) >= 3
    /\ char_widths = InitialCharWidths

\* C18: estimate_text_height is monotone in the text: with the same font
\* size, width and line-height multiplier, a text B that is A followed by
\* further non-empty text is measured at least as high as A, also when A is
\* empty and when the width has room for no character.
C18_Monotone ==
    measured # NoMeasurement => measured.height_b >= measured.height_a

\* a non-empty A that the extra text makes wrap onto more lines
C18_Witness ==
    /\ measured # NoMeasurement
    /\ measured.text_a > 0
    /\ measured.height_a > 0
    /\ measured.height_b > measured.height_a

\* what the invocation returns when it is the only one running
AloneResult(th) ==
    generate_optimal_layout(th.data, th.args.target_format,
                            th.args.experience_level, th.args.industry)

\* C16: concurrent invocations of generate on the one shared service do not
\* interfere: however their steps interleave, each returns the LayoutResult
\* it returns when run alone.
C16_NoInterference ==
    \A t \in Threads :
        threads[t].at = "done" => threads[t].result = AloneResult(threads[t])

\* an invocation returned a two-page result after placing sections while the
\* other one, given different content, was in the middle of its own loop
C16_Witness ==
    \E t \in Threads, u \in Threads :
        /\ t # u
        /\ threads[t].at = "done"
        /\ threads[t].met
        /\ threads[t].result.total_pages >= 2
        /\ MidLoop(u)
        /\ threads[u].data # threads[t].data

\* width of the main column: 65% of the content width
MainWidthOf(c) == (content_width_mm(c) * 65) \div 100

\* C21 (as claimed): two-column/sidebar placement puts the header, summary and
\* experience sections the analyzer produced in the main column (x = left
\* margin, width 65% of the content width) and every other section in the
\* sidebar column.
C21_MainColumnPartition ==
    TwoColumnResult =>
        \A e \in ElementsOf(result) :
            IF e.element_id \in MainIds
            THEN /\ e.x_mm = constraints.margin_left_mm
                 /\ e.width_mm = MainWidthOf(constraints)
            ELSE /\ e.x_mm = constraints.margin_left_mm + MainWidthOf(constraints)
                              + MM(10)
                 /\ e.width_mm = (content_width_mm(constraints) * 30) \div 100

\* the penalty of a page whose heights sum to total, measured against height:
\* 10 when utilization is below 0.7, 15 when it is above 0.95
PenaltyAgainst(total, height) ==
    IF total * 10 < 7 * height THEN 10
    ELSE IF total * 20 > 19 * height THEN 15
    ELSE 0

\* the CRITICAL sections that have an element on the first page of the result
CriticalOnFirstPage(res, secs) ==
    {i \in 1..Len(secs) :
        /\ secs[i].priority = CRITICAL
        /\ res.pages # <<>>
        /\ \E k \in 1..Len(res.pages[1]) :
               res.pages[1][k].element_id = secs[i].section_id}

\* 100, less 15 per page beyond the first, less 10 per overflow id, less the
\* page penalties measured against height, plus 5 per critical section on
\* the first page; clamped to 0..100 at the end
ScoreAgainst(res, secs, height) ==
    LET unclamped ==
            100
            - (IF res.total_pages > 1 THEN (res.total_pages - 1) * 15 ELSE 0)
            - Len(res.overflow_sections) * 10
            - SumSeq([i \in 1..Len(res.pages) |->
                         PenaltyAgainst(PageTotalHeight(res.pages[i]), height)])
            + Cardinality(CriticalOnFirstPage(res, secs)) * 5
    IN  IF unclamped < 0 THEN 0 ELSE IF unclamped > 100 THEN 100 ELSE unclamped

\* C22 (as claimed): the utilization of a page used by scoring is the sum of
\* its element heights divided by the content height of the page constraints
\* the layout was computed with (A4, letter or web), with 10 subtracted below
\* 0.7 and 15 above 0.95.
C22_UtilizationOfOwnPage ==
    SingleColumnResult =>
        result.layout_score
            = ScoreAgainst(result, sections, content_height_mm(constraints))

\* C23: for a single-column result the layout_score is 100, minus 15 for each
\* page beyond the first, minus 10 for each id in overflow_sections, minus
\* the utilization penalty of each page (measured against 297 - 40 mm), plus
\* 5 for each CRITICAL section with an element on the first page, and is
\* clamped to 0..100 only after all the terms are applied.
C23_ScoreFormula ==
    SingleColumnResult =>
        result.layout_score = ScoreAgainst(result, sections, MM(297) - MM(40))

\* a result with a page beyond the first, an overflow id, and a critical
\* section on the first page
C23_Witness ==
    /\ SingleColumnResult
    /\ result.total_pages >= 2
    /\ result.overflow_sections # <<>>
    /\ CriticalOnFirstPage(result, sections) # {}
    /\ result.layout_score > 0
    /\ result.layout_score < 100

\* the five pieces of advice the returned result calls for, in the fixed order
AdviceCalledFor ==
       (IF result.total_pages > 2
        THEN <<Text("Consider condensing content to fit within 2 pages")>> ELSE <<>>)
    \o (IF result.overflow_sections # <<>>
        THEN <<Text("Sections may be truncated: ") \o JoinIds(result.overflow_sections)>>
        ELSE <<>>)
    \o (IF result.layout_score < 70
        THEN <<Text("Layout could be optimized for better presentation")>> ELSE <<>>)
    \o (IF result.pages # <<>> /\ PageTotalHeight(result.pages[1]) > MM(250)
        THEN <<Text("Consider moving some content to second page for better balance")>>
        ELSE <<>>)
    \o (IF Len(cv_data.work_experience) > 5
        THEN <<Text("Consider limiting work experience to 4-5 most relevant positions")>>
        ELSE <<>>)

\* C24: the optimizer's recommendations for a single-column result are, in
\* this order, condense (total_pages > 2), truncated sections (overflow
\* non-empty), general optimization (layout_score < 70), rebalance (page 1
\* heights sum above 250mm) and limit experience (more than 5 entries), each
\* present exactly when its condition holds; the well-optimized message is
\* present exactly when none of them is.
C24_RecommendationOrder ==
    (Returned({"optimize"}) /\ layout_type \notin {TWO_COLUMN, MODERN_SIDEBAR}) =>
        result.recommendations
            = IF AdviceCalledFor = <<>>
              THEN <<Text("Layout is well-optimized for readability and ATS compatibility")>>
              ELSE AdviceCalledFor

\* four pieces of advice at once, the condense and the truncated ones included
C24_Witness ==
    /\ Returned({"optimize"})
    /\ layout_type \notin {TWO_COLUMN, MODERN_SIDEBAR}
    /\ result.total_pages > 2
    /\ result.overflow_sections # <<>>
    /\ Len(result.recommendations) = 4

\* the positions of a recommendation in the result
PositionsOf(text) ==
    {i \in 1..Len(result.recommendations) : result.recommendations[i] = <<text>>}

\* C25: in every result of generate the last recommendation is the closing
\* print-and-digital note; the first is the condense-content advice exactly
\* when layout_score < 60; and the prioritization suggestion is present
\* exactly when layout_score < 60 and total_pages > 2, immediately before the
\* closing note.
C25_AdjustmentOrder ==
    Returned({"generate"}) =>
        LET n == Len(result.recommendations)
            prioritize == PositionsOf("Prioritize most relevant experience and skills")
        IN  /\ n >= 1
            /\ n \in PositionsOf("Layout is optimized for both print and digital viewing")
            /\ 1 \in PositionsOf("Consider condensing content for better layout")
                   <=> result.layout_score < 60
            /\ prioritize # {}
                   <=> (result.layout_score < 60 /\ result.total_pages > 2)
            /\ prioritize \subseteq {n - 1}

\* a low-scoring result of more than two pages, with all three additions
C25_Witness ==
    /\ Returned({"generate"})
    /\ result.layout_score < 60
    /\ result.total_pages > 2
    /\ PositionsOf("Prioritize most relevant experience and skills") # {}

\* what optimize_layout returns for the two-column type on the same input
TwoColumnCounterpart == optimize_layout(cv_data, TWO_COLUMN, constraints)

\* C26 (as claimed): for the same content and page constraints,
\* optimize_layout with MODERN_SIDEBAR returns the same pages (elements,
\* coordinates and heights), total_pages, overflow_sections and score as
\* with TWO_COLUMN.
C26_SidebarSameAsTwoColumn ==
    (Returned({"optimize"}) /\ layout_type = MODERN_SIDEBAR) =>
        /\ result.pages = TwoColumnCounterpart.pages
        /\ result.total_pages = TwoColumnCounterpart.total_pages
        /\ result.overflow_sections = TwoColumnCounterpart.overflow_sections
        /\ result.layout_score = TwoColumnCounterpart.layout_score

\* the elements of the result read page by page
PlacedInOrder == Flatten(result.pages)

\* C27: single-column placement is one pass that places every input section
\* exactly once: the elements of the result, read page by page, carry
\* exactly the input section ids in the input order, and no element is on an
\* earlier page than the element of a preceding section.
C27_OnePass ==
    SingleColumnResult =>
        /\ [i \in 1..Len(PlacedInOrder) |-> PlacedInOrder[i].element_id]
               = [i \in 1..Len(sections) |-> sections[i].section_id]
        /\ \A i \in 1..Len(PlacedInOrder), j \in 1..Len(PlacedInOrder) :
               i < j => PlacedInOrder[i].page_number <= PlacedInOrder[j].page_number

\* six sections placed over three pages or more
C27_Witness ==
    /\ SingleColumnResult
    /\ Len(sections) = 6
    /\ Len(PlacedInOrder) = 6
    /\ result.total_pages >= 3

\* the ids of the sections whose element is lower than their preferred height
TruncatedIds ==
    {sections[i].section_id : i \in
        {j \in 1..Len(sections) :
            \E e \in ElementFor(result, sections[j].section_id) :
                e.height_mm < sections[j].preferred_height_mm}}

\* C28 (as claimed): overflow_sections of a single-column result holds no id
\* twice, and holds exactly the ids of the sections whose element was placed
\* with a height smaller than their preferred_height; a section placed at its
\* full preferred_height is never in it.
C28_OverflowIsTruncated ==
    SingleColumnResult =>
        /\ Cardinality(OverflowIds(result)) = Len(result.overflow_sections)
        /\ OverflowIds(result) = TruncatedIds

\* the elements of the sidebar column: those at the sidebar's x
InSidebar(e) ==
    e.x_mm = constraints.margin_left_mm + MainWidthOf(constraints) + MM(10)

\* two elements share a point of the plane
OverlapInPlane(a, b) ==
    /\ a.x_mm < b.x_mm + b.width_mm /\ b.x_mm < a.x_mm + a.width_mm
    /\ a.y_mm < b.y_mm + b.height_mm /\ b.y_mm < a.y_mm + a.height_mm

\* C29: in two-column placement no sidebar element overlaps the header
\* element in the plane; within each column the elements are stacked top to
\* bottom with non-overlapping vertical intervals; and the first sidebar
\* element starts 60mm below the top margin.
C29_ColumnsDoNotOverlap ==
    TwoColumnResult =>
        LET els == Flatten(result.pages)
            side == {i \in 1..Len(els) : InSidebar(els[i])}
        IN  /\ \A i \in 1..Len(els) :
                   i \notin side => els[i].x_mm = constraints.margin_left_mm
            /\ \A i \in side, j \in 1..Len(els) :
                   els[j].element_id = "header" => ~OverlapInPlane(els[i], els[j])
            /\ \A i \in 1..Len(els), j \in 1..Len(els) :
                   (i < j /\ els[i].x_mm = els[j].x_mm) =>
                       els[i].y_mm + els[i].height_mm <= els[j].y_mm
            /\ \A i \in side :
                   (\A j \in side : i <= j) =>
                       els[i].y_mm = constraints.margin_top_mm + MM(60)

\* a header taller than 60mm beside a sidebar of three elements or more
C29_Witness ==
    /\ TwoColumnResult
    /\ \E h \in ElementFor(result, "header") : h.height_mm > MM(60)
    /\ Cardinality({e \in ElementsOf(result) : InSidebar(e)}) >= 3

\* the request that just returned differs from the remembered one in its
\* layout_type and in nothing else
DiffersOnlyInLayoutType ==
    /\ Returned({"endpoint"})
    /\ first # <<>>
    /\ call.layout_type # first[1].call.layout_type
    /\ call.target_format = first[1].call.target_format
    /\ call.experience_level = first[1].call.experience_level
    /\ call.industry = first[1].call.industry

\* C30: the layout result the /layout/optimize endpoint returns does not
\* depend on the request's layout_type: two requests that differ only in
\* layout_type receive identical layout results.
C30_LayoutTypeIgnored ==
    DiffersOnlyInLayoutType => result = first[1].result

\* a single_column request and a two_column request for the same content
\* got the same several-page layout
C30_Witness ==
    /\ DiffersOnlyInLayoutType
    /\ first[1].call.layout_type = "single_column"
    /\ call.layout_type = "two_column"
    /\ result.total_pages >= 2
    /\ result = first[1].result


====
